---- MODULE Spec2Model ----
(***************************************************************************)
(* Model of package rabbitmq (rabbitmq.go, Receiver interface):            *)
(* the Supervisor (RabbitMQ.Start / RabbitMQ.run), the per-receiver         *)
(* consumption task (RabbitMQ.listen) and the broker they talk to through  *)
(* the amqp client (connection, channel, queues, deliveries).              *)
(***************************************************************************)
EXTENDS Integers, Sequences, FiniteSets, TLC

\* ---------------------------------------------------------------- bounds
MaxReceivers == 2      \* longest registry explored
MaxHandles == 2        \* connection/channel handles the broker hands out
MaxQos == 1            \* largest prefetch limit passed to New
MsgsPerQueue == 2      \* messages waiting in the first queue

Nil == "nil"

\* The nil *amqp.Connection / *amqp.Channel.
NoHandle == 0

\* Receiver implementations known to the caller of RegisterReceiver.
ReceiverIds == {"r1", "r2"}

\* Receiver.GetBindInfo: the binding a receiver supplies (constant per receiver).
GetBindInfo(r) ==
    IF r = "r1"
    THEN [Exchange |-> "orders", RouterKey |-> "order.created", QueueName |-> "q1"]
    ELSE [Exchange |-> "orders", RouterKey |-> "order.paid", QueueName |-> "q2"]

QueueNames == {GetBindInfo(r).QueueName : r \in ReceiverIds}
Tasks == 1..MaxReceivers
Handles == 1..MaxHandles

\* Messages waiting in the (durable) queues when the program starts.
InitialMsgs(q) == IF q = "q1" THEN 1..MsgsPerQueue ELSE {1}

VARIABLES
    receivers,    \* mq.receivers: the registry, a sequence of receivers
    qos,          \* mq.qos
    channel,      \* mq.channel: handle of the current channel, or NoHandle
    wg,           \* mq.wg: the wait-group counter
    supPc,        \* position of the goroutine running Start/run
    conn,         \* run's local conn: handle of the dialled connection, or NoHandle
    dialErr,      \* run's local err after amqp.Dial (TRUE = dial failed)
    idx,          \* position of run's range loop in mq.receivers
    connState,    \* broker/client: handle -> "closed" | "open" | "lost"
    chanState,    \* broker/client: handle -> "closed" | "open" | "lost"
    qosApplied,   \* broker: prefetch limit in force on the current channel
    pc,           \* task -> position of that listen goroutine
    arg,          \* task -> the receiver passed to listen
    bind,         \* task -> queueName/routerKey/exchangeName locals of listen
    messages,     \* task -> listen's local stream: "nil" | "open" | "closed"
    msg,          \* task -> delivery tag held by the range loop, 0 if none
    ops,          \* task -> broker operations issued by the task, in order
    onError,      \* receiver -> number of OnError calls it got in the epoch
    failed,       \* task -> number of its calls on mq.channel that returned an error
    ready,        \* broker: queue -> messages ready for delivery
    deliv         \* broker/channel: delivery tag -> delivery record

supVars == <<channel, wg, supPc, conn, dialErr, idx>>
sessVars == <<connState, chanState, qosApplied>>
taskVars == <<pc, arg, bind, messages, msg, ops, failed>>
brokerVars == <<ready, deliv>>
vars == <<receivers, qos, channel, wg, supPc, conn, dialErr, idx,
          connState, chanState, qosApplied,
          pc, arg, bind, messages, msg, ops, failed, onError, ready, deliv>>

\* ------------------------------------------------------------- helpers
NoBind == [Exchange |-> Nil, RouterKey |-> Nil, QueueName |-> Nil]

\* No listen goroutine exists.
NoTasks ==
    [pc |-> [t \in Tasks |-> "none"],
     arg |-> [t \in Tasks |-> Nil],
     bind |-> [t \in Tasks |-> NoBind],
     messages |-> [t \in Tasks |-> "nil"],
     msg |-> [t \in Tasks |-> 0],
     ops |-> [t \in Tasks |-> <<>>],
     failed |-> [t \in Tasks |-> 0]]

Live(st) == {h \in Handles : st[h] # "closed"}

\* The channel mq.channel is usable (opened and neither closed nor lost).
ChannelOpen == channel # NoHandle /\ chanState[channel] = "open"

Spawned == {t \in Tasks : pc[t] # "none"}
Running == {t \in Tasks : pc[t] \notin {"none", "done"}}

\* Deliveries of the channel the broker still holds as unacknowledged.
Unacked == {d \in DOMAIN deliv : deliv[d].state = "unacked"}

\* Messages of unacknowledged deliveries go back to their queues when the
\* channel goes away (closed by the program or lost with the connection).
Requeued(q) == ready[q] \cup {deliv[d].m : d \in {e \in Unacked : deliv[e].queue = q}}

RequeueAll ==
    /\ ready' = [q \in QueueNames |-> Requeued(q)]
    /\ deliv' = [d \in DOMAIN deliv |->
                    IF deliv[d].state = "unacked"
                    THEN [deliv[d] EXCEPT !.state = "requeued"]
                    ELSE deliv[d]]

\* Closing a channel closes every consumption stream opened on it.
StreamsClosed == [t \in Tasks |-> IF messages[t] = "open" THEN "closed" ELSE messages[t]]

\* ----------------------------------------------------------------- Init
\* New(connect, qos): empty registry, no channel, zero wait group.
Init ==
    /\ receivers = <<>>
    /\ qos \in 0..MaxQos
    /\ channel = NoHandle
    /\ wg = 0
    /\ supPc = "new"
    /\ conn = NoHandle
    /\ dialErr = FALSE
    /\ idx = 0
    /\ connState = [h \in Handles |-> "closed"]
    /\ chanState = [h \in Handles |-> "closed"]
    /\ qosApplied = FALSE
    /\ pc = NoTasks.pc /\ arg = NoTasks.arg /\ bind = NoTasks.bind
    /\ messages = NoTasks.messages /\ msg = NoTasks.msg /\ ops = NoTasks.ops
    /\ failed = NoTasks.failed
    /\ onError = [r \in ReceiverIds |-> 0]
    /\ ready = [q \in QueueNames |-> InitialMsgs(q)]
    /\ deliv = <<>>

\* A registration that puts the new receiver in front.
RegisterReceiverPrepend(r) ==
    /\ supPc = "new"
    /\ Len(receivers) < MaxReceivers
    /\ receivers' = <<r>> \o receivers
    /\ UNCHANGED <<qos, supVars, sessVars, taskVars, onError, brokerVars>>

\* ------------------------------------------------------ RegisterReceiver
RegisterReceiver(r) ==
    /\ supPc = "new"
    /\ Len(receivers) < MaxReceivers
    /\ receivers' = Append(receivers, r)
    /\ UNCHANGED <<qos, supVars, sessVars, taskVars, onError, brokerVars>>

\* ----------------------------------------------------------------- Start
\* Start enters its for loop and calls run.
Start ==
    /\ supPc = "new"
    /\ supPc' = "dial"
    /\ UNCHANGED <<receivers, qos, channel, wg, conn, dialErr, idx,
                   sessVars, taskVars, onError, brokerVars>>

\* ------------------------------------------------------------------- run
\* amqp.Dial: the broker hands out a handle that is not in use.
NewHandle == CHOOSE h \in Handles \ Live(connState) :
                 \A g \in Handles \ Live(connState) : h <= g

\* run, lines 63-68: dial; on failure log and return to Start.
Dial ==
    /\ supPc = "dial"
    /\ \/ /\ Live(connState) # Handles
          /\ conn' = NewHandle
          /\ connState' = [connState EXCEPT ![NewHandle] = "open"]
          /\ dialErr' = FALSE
          /\ supPc' = "channel"
       \/ /\ dialErr' = TRUE
          /\ supPc' = "sleep"
          /\ UNCHANGED <<conn, connState>>
    /\ UNCHANGED <<receivers, qos, channel, wg, idx, chanState, qosApplied,
                   taskVars, onError, brokerVars>>

\* A run that only logs a channel failure and goes on to Qos and the loop.
ChannelFailNextContinue == "qos"

\* A run that returns on a channel failure before conn.Close() is deferred.
ChannelFailNextNoClose == "sleep"

\* Where run goes when conn.Channel() fails: it returns, and the deferred
\* conn.Close() of line 68 runs.
ChannelFailNext == "closeConn"

\* run, lines 70-75: open the channel; on failure log and return.
OpenChannel ==
    /\ supPc = "channel"
    /\ \/ /\ connState[conn] = "open"
          /\ channel' = conn
          /\ chanState' = [chanState EXCEPT ![conn] = "open"]
          /\ supPc' = "qos"
       \/ /\ channel' = NoHandle
          /\ supPc' = ChannelFailNext
          /\ UNCHANGED chanState
    /\ UNCHANGED <<receivers, qos, wg, conn, dialErr, idx, connState, qosApplied,
                   taskVars, onError, brokerVars>>

\* Head of the range loop of line 84 after k completed iterations.
LoopNext(k) == IF k < Len(receivers) THEN "add" ELSE "wait"

\* A run that returns when Qos fails.
SetQosAbort ==
    /\ supPc = "qos"
    /\ \/ ChannelOpen /\ qosApplied' = TRUE /\ supPc' = LoopNext(0)
       \/ qosApplied' = FALSE /\ supPc' = "closeChannel"
    /\ idx' = 0
    /\ UNCHANGED <<receivers, qos, channel, wg, conn, dialErr, connState, chanState,
                   taskVars, onError, brokerVars>>

\* run, lines 78-82: set the prefetch limit; a failure is only logged.
SetQos ==
    /\ supPc = "qos"
    /\ \/ ChannelOpen /\ qosApplied' = TRUE
       \/ qosApplied' = FALSE
    /\ idx' = 0
    /\ supPc' = LoopNext(0)
    /\ UNCHANGED <<receivers, qos, channel, wg, conn, dialErr, connState, chanState,
                   taskVars, onError, brokerVars>>

\* run, line 85: mq.wg.Add(1), followed by the one-second sleep.
WgAdd ==
    /\ supPc = "add"
    /\ wg' = wg + 1
    /\ supPc' = "go"
    /\ UNCHANGED <<receivers, qos, channel, conn, dialErr, idx, sessVars,
                   taskVars, onError, brokerVars>>

\* Every goroutine sees the loop variable's last value.
SpawnArgLast(k) == receivers[Len(receivers)]

\* The receiver handed to listen by the go statement of iteration k.
SpawnArg(k) == receivers[k]

\* run, line 87: go mq.listen(receiver).
Spawn ==
    /\ supPc = "go"
    /\ LET t == Cardinality(Spawned) + 1 IN
          /\ t \in Tasks
          /\ pc' = [pc EXCEPT ![t] = "exchange"]
          /\ arg' = [arg EXCEPT ![t] = SpawnArg(idx + 1)]
    /\ idx' = idx + 1
    /\ supPc' = LoopNext(idx + 1)
    /\ UNCHANGED <<receivers, qos, channel, wg, conn, dialErr, sessVars,
                   bind, messages, msg, ops, failed, onError, brokerVars>>

\* A barrier that lets run go on while one task is still running.
WaitReturnsEarly == wg <= 1

\* A barrier that waits for some task to have finished.
WaitReturnsAfterOne == wg = 0 /\ Spawned # {}

\* mq.wg.Wait() returns once the counter is zero.
WaitReturns == wg = 0

\* run, lines 90-92: the join barrier, then the log line.
Wait ==
    /\ supPc = "wait"
    /\ WaitReturns
    /\ supPc' = "closeChannel"
    /\ UNCHANGED <<receivers, qos, channel, wg, conn, dialErr, idx, sessVars,
                   taskVars, onError, brokerVars>>

\* run returning, deferred mq.channel.Close() of line 75.
CloseChannel ==
    /\ supPc = "closeChannel"
    /\ chanState' = [chanState EXCEPT ![channel] = "closed"]
    /\ messages' = StreamsClosed
    /\ RequeueAll
    /\ supPc' = "closeConn"
    /\ UNCHANGED <<receivers, qos, channel, wg, conn, dialErr, idx, connState,
                   qosApplied, pc, arg, bind, msg, ops, failed, onError>>

\* run returning, deferred conn.Close() of line 68; run is back in Start.
\* The goroutines of the epoch are gone and the channel's delivery tags
\* with them.
CloseConn ==
    /\ supPc = "closeConn"
    /\ connState' = [connState EXCEPT ![conn] = "closed"]
    /\ chanState' = [chanState EXCEPT ![conn] = "closed"]
    /\ supPc' = "sleep"
    /\ qosApplied' = FALSE
    /\ pc' = NoTasks.pc /\ arg' = NoTasks.arg /\ bind' = NoTasks.bind
    /\ messages' = NoTasks.messages /\ msg' = NoTasks.msg /\ ops' = NoTasks.ops
    /\ failed' = NoTasks.failed
    /\ ready' = [q \in QueueNames |-> Requeued(q)]
    /\ deliv' = <<>>
    /\ onError' = [r \in ReceiverIds |-> 0]
    /\ idx' = 0
    /\ UNCHANGED <<receivers, qos, channel, wg, conn, dialErr>>

\* A Start that calls run once and returns.
AfterSleepReturn == "returned"

\* Where Start goes after time.Sleep(5 * time.Second): round the for loop.
AfterSleep == "dial"

\* Start, line 50: the fixed delay between two calls of run.
Sleep ==
    /\ supPc = "sleep"
    /\ supPc' = AfterSleep
    /\ UNCHANGED <<receivers, qos, channel, wg, conn, dialErr, idx, sessVars,
                   taskVars, onError, brokerVars>>

Supervisor ==
    Start \/ Dial \/ OpenChannel \/ SetQos \/ WgAdd \/ Spawn \/ Wait
    \/ CloseChannel \/ CloseConn \/ Sleep

\* ---------------------------------------------------------------- listen
\* The broker operations of listen, with the fixed flags of the code.
prepareExchange(changeName) ==
    [op |-> "ExchangeDeclare", name |-> changeName, kind |-> "topic",
     durable |-> TRUE, autoDelete |-> FALSE]
QueueDeclare(name) ==
    [op |-> "QueueDeclare", name |-> name, durable |-> TRUE,
     autoDelete |-> FALSE, exclusive |-> FALSE]
QueueBind(name, key, exchange) ==
    [op |-> "QueueBind", name |-> name, key |-> key, exchange |-> exchange]
Consume(queue) ==
    [op |-> "Consume", queue |-> queue, consumer |-> "", autoAck |-> FALSE]

\* A listen that binds the queue before declaring it.
StepAfterBindFirst(s) ==
    CASE s = "exchange" -> "qbind"
      [] s = "qbind" -> "queue"
      [] s = "queue" -> "consume"
      [] s = "consume" -> "range"

\* The statement of listen that follows statement s.
StepAfter(s) ==
    CASE s = "exchange" -> "queue"
      [] s = "queue" -> "qbind"
      [] s = "qbind" -> "consume"
      [] s = "consume" -> "range"

\* An error branch that closes the shared channel.
ChannelAfterErrorClose(st) == "closed"

\* What a failed setup step does to the shared channel: nothing, the task
\* only calls receiver.OnError and goes on.
ChannelAfterError(st) == st

\* A listen that returns as soon as a call on mq.channel fails.
BrokerCallAbort(t, step, call, ok) ==
    /\ pc[t] = step
    /\ ok => ChannelOpen
    /\ ops' = [ops EXCEPT ![t] = Append(@, call)]
    /\ failed' = IF ok THEN failed ELSE [failed EXCEPT ![t] = @ + 1]
    /\ onError' = IF ok THEN onError ELSE [onError EXCEPT ![arg[t]] = @ + 1]
    /\ chanState' = chanState
    /\ pc' = [pc EXCEPT ![t] = IF ok THEN StepAfter(step) ELSE "done"]

\* One call on mq.channel by task t: it succeeds only on an open channel and
\* may fail on any; on failure the task notifies its receiver and goes on.
BrokerCall(t, step, call, ok) ==
    /\ pc[t] = step
    /\ ok => ChannelOpen
    /\ ops' = [ops EXCEPT ![t] = Append(@, call)]
    /\ failed' = IF ok THEN failed ELSE [failed EXCEPT ![t] = @ + 1]
    /\ onError' = IF ok THEN onError ELSE [onError EXCEPT ![arg[t]] = @ + 1]
    /\ chanState' = IF ok \/ channel = NoHandle THEN chanState
                    ELSE [chanState EXCEPT ![channel] = ChannelAfterError(@)]
    /\ pc' = [pc EXCEPT ![t] = StepAfter(step)]

\* listen, lines 101-109: read the receiver's binding (three GetBindInfo
\* calls on the task's own receiver), then declare the exchange.
DeclareExchange(t) ==
    /\ \E ok \in BOOLEAN :
          BrokerCall(t, "exchange", prepareExchange(GetBindInfo(arg[t]).Exchange), ok)
    /\ bind' = [bind EXCEPT ![t] = GetBindInfo(arg[t])]
    /\ UNCHANGED <<receivers, qos, supVars, connState, qosApplied,
                   arg, messages, msg, brokerVars>>

\* listen, lines 112-116.
DeclareQueue(t) ==
    /\ \E ok \in BOOLEAN :
          BrokerCall(t, "queue", QueueDeclare(bind[t].QueueName), ok)
    /\ UNCHANGED <<receivers, qos, supVars, connState, qosApplied,
                   arg, bind, messages, msg, brokerVars>>

\* listen, lines 119-128.
BindQueue(t) ==
    /\ \E ok \in BOOLEAN :
          BrokerCall(t, "qbind",
                     QueueBind(bind[t].QueueName, bind[t].RouterKey, bind[t].Exchange), ok)
    /\ UNCHANGED <<receivers, qos, supVars, connState, qosApplied,
                   arg, bind, messages, msg, brokerVars>>

\* A listen that returns (deferred wg.Done) when Consume fails.
OpenStreamAbort(t) ==
    /\ \E ok \in BOOLEAN :
          /\ pc[t] = "consume"
          /\ ok => ChannelOpen
          /\ ops' = [ops EXCEPT ![t] = Append(@, Consume(bind[t].QueueName))]
          /\ failed' = IF ok THEN failed ELSE [failed EXCEPT ![t] = @ + 1]
          /\ onError' = IF ok THEN onError ELSE [onError EXCEPT ![arg[t]] = @ + 1]
          /\ messages' = [messages EXCEPT ![t] = IF ok THEN "open" ELSE "nil"]
          /\ pc' = [pc EXCEPT ![t] = IF ok THEN "range" ELSE "done"]
          /\ wg' = IF ok THEN wg ELSE wg - 1
    /\ UNCHANGED <<receivers, qos, channel, supPc, conn, dialErr, idx, sessVars,
                   arg, bind, msg, brokerVars>>

\* listen, lines 131-135: a failed Consume returns a nil stream.
OpenStream(t) ==
    /\ \E ok \in BOOLEAN :
          /\ BrokerCall(t, "consume", Consume(bind[t].QueueName), ok)
          /\ messages' = [messages EXCEPT ![t] = IF ok THEN "open" ELSE "nil"]
    /\ UNCHANGED <<receivers, qos, supVars, connState, qosApplied,
                   arg, bind, msg, brokerVars>>

\* The broker may push another message on the channel: the prefetch limit,
\* when in force and not zero, bounds the unacknowledged deliveries.
PrefetchAllows == (qosApplied /\ qos > 0) => Cardinality(Unacked) < qos

Min(S) == CHOOSE x \in S : \A y \in S : x <= y

\* A range loop that hands each delivery to a handler goroutine and takes
\* the next one without waiting for the verdict.
ReceiveConcurrent(t) ==
    /\ pc[t] \in {"range", "onreceive"}
    /\ messages[t] = "open"
    /\ PrefetchAllows
    /\ LET q == bind[t].QueueName IN
          /\ ready[q] # {}
          /\ deliv' = Append(deliv, [m |-> Min(ready[q]), queue |-> q, task |-> t,
                                     verdict |-> "pending", ackCalls |-> 0,
                                     state |-> "unacked"])
          /\ ready' = [ready EXCEPT ![q] = @ \ {Min(ready[q])}]
    /\ msg' = [msg EXCEPT ![t] = Len(deliv) + 1]
    /\ pc' = [pc EXCEPT ![t] = "onreceive"]
    /\ UNCHANGED <<receivers, qos, supVars, sessVars, arg, bind, messages, ops, failed, onError>>

\* A range loop that takes a delivery only while no other task is inside
\* OnReceive (one lock around the handlers of all tasks).
ReceiveSerial(t) ==
    /\ pc[t] = "range"
    /\ messages[t] = "open"
    /\ PrefetchAllows
    /\ \A u \in Tasks \ {t} : pc[u] # "onreceive"
    /\ LET q == bind[t].QueueName IN
          /\ ready[q] # {}
          /\ deliv' = Append(deliv, [m |-> Min(ready[q]), queue |-> q, task |-> t,
                                     verdict |-> "pending", ackCalls |-> 0,
                                     state |-> "unacked"])
          /\ ready' = [ready EXCEPT ![q] = @ \ {Min(ready[q])}]
    /\ msg' = [msg EXCEPT ![t] = Len(deliv) + 1]
    /\ pc' = [pc EXCEPT ![t] = "onreceive"]
    /\ UNCHANGED <<receivers, qos, supVars, sessVars, arg, bind, messages, ops, failed, onError>>

\* listen, line 137: the range loop takes the next delivery of the stream.
\* A nil stream blocks for ever; a closed stream ends the loop.
Receive(t) ==
    /\ pc[t] = "range"
    /\ messages[t] = "open"
    /\ PrefetchAllows
    /\ LET q == bind[t].QueueName IN
          /\ ready[q] # {}
          /\ deliv' = Append(deliv, [m |-> Min(ready[q]), queue |-> q, task |-> t,
                                     verdict |-> "pending", ackCalls |-> 0,
                                     state |-> "unacked"])
          /\ ready' = [ready EXCEPT ![q] = @ \ {Min(ready[q])}]
    /\ msg' = [msg EXCEPT ![t] = Len(deliv) + 1]
    /\ pc' = [pc EXCEPT ![t] = "onreceive"]
    /\ UNCHANGED <<receivers, qos, supVars, sessVars, arg, bind, messages, ops, failed, onError>>

\* A listen without the deferred mq.wg.Done().
ExitNoDone(t) ==
    /\ pc[t] = "range"
    /\ messages[t] = "closed"
    /\ pc' = [pc EXCEPT ![t] = "done"]
    /\ UNCHANGED <<receivers, qos, supVars, sessVars,
                   arg, bind, messages, msg, ops, failed, onError, brokerVars>>

\* listen, lines 137/150 and 99: the stream is closed, the loop ends,
\* the function returns and the deferred mq.wg.Done() runs.
Exit(t) ==
    /\ pc[t] = "range"
    /\ messages[t] = "closed"
    /\ pc' = [pc EXCEPT ![t] = "done"]
    /\ wg' = wg - 1
    /\ UNCHANGED <<receivers, qos, channel, supPc, conn, dialErr, idx, sessVars,
                   arg, bind, messages, msg, ops, failed, onError, brokerVars>>

\* A loop that acknowledges whatever the verdict.
ShouldAckAlways(verdict) == TRUE

\* The condition of line 143 under which the delivery is acknowledged.
ShouldAck(verdict) == verdict

\* A loop that ends (break) when the verdict is false.
OnReceiveBreak(t) ==
    /\ pc[t] = "onreceive"
    /\ \E v \in BOOLEAN :
          /\ deliv' = [deliv EXCEPT ![msg[t]].verdict = IF v THEN "true" ELSE "false"]
          /\ pc' = [pc EXCEPT ![t] = IF v THEN "ack" ELSE "done"]
          /\ msg' = [msg EXCEPT ![t] = IF v THEN @ ELSE 0]
    /\ UNCHANGED <<receivers, qos, supVars, sessVars, arg, bind, messages, ops,
                   failed, onError, ready>>

\* listen, line 143: receiver.OnReceive(msg.Body) returns its verdict.
OnReceive(t) ==
    /\ pc[t] = "onreceive"
    /\ \E v \in BOOLEAN :
          /\ deliv' = [deliv EXCEPT ![msg[t]].verdict = IF v THEN "true" ELSE "false"]
          /\ pc' = [pc EXCEPT ![t] = IF ShouldAck(v) THEN "ack" ELSE "range"]
          /\ msg' = [msg EXCEPT ![t] = IF ShouldAck(v) THEN @ ELSE 0]
    /\ UNCHANGED <<receivers, qos, supVars, sessVars, arg, bind, messages, ops,
                   failed, onError, ready>>

\* msg.Ack(true).
AckMultipleTrue == TRUE

\* The multiple flag of msg.Ack on line 147.
AckMultiple == FALSE

\* Delivery tags the broker settles for an Ack of tag d.
AckedBy(d, multiple) ==
    IF ~ChannelOpen THEN {}
    ELSE IF multiple THEN {e \in Unacked : e <= d}
    ELSE {d} \cap Unacked

\* listen, line 147: msg.Ack(false).
Ack(t) ==
    /\ pc[t] = "ack"
    /\ deliv' = [d \in DOMAIN deliv |->
                    [deliv[d] EXCEPT
                        !.ackCalls = IF d = msg[t] THEN @ + 1 ELSE @,
                        !.state = IF d \in AckedBy(msg[t], AckMultiple)
                                  THEN "acked" ELSE @]]
    /\ pc' = [pc EXCEPT ![t] = "range"]
    /\ msg' = [msg EXCEPT ![t] = 0]
    /\ UNCHANGED <<receivers, qos, supVars, sessVars, arg, bind, messages, ops,
                   failed, onError, ready>>

Listen(t) ==
    DeclareExchange(t) \/ DeclareQueue(t) \/ BindQueue(t)
    \/ OpenStream(t) \/ Receive(t) \/ Exit(t) \/ OnReceive(t) \/ Ack(t)

\* ---------------------------------------------------------------- broker
\* The transport connection drops: the channel goes with it, every stream
\* opened on it is closed and unacknowledged messages return to the queues.
ConnectionLost ==
    /\ conn # NoHandle
    /\ connState[conn] = "open"
    /\ connState' = [connState EXCEPT ![conn] = "lost"]
    /\ chanState' = [chanState EXCEPT ![conn] = IF @ = "open" THEN "lost" ELSE @]
    /\ messages' = StreamsClosed
    /\ RequeueAll
    /\ UNCHANGED <<receivers, qos, supVars, qosApplied, pc, arg, bind, msg, ops, failed, onError>>

\* The broker ends one consumer (its queue was deleted, say): that stream
\* alone is closed.
StreamCancelled(t) ==
    /\ messages[t] = "open"
    /\ messages' = [messages EXCEPT ![t] = "closed"]
    /\ UNCHANGED <<receivers, qos, supVars, sessVars, pc, arg, bind, msg, ops,
                   failed, onError, brokerVars>>

\* ------------------------------------------------------------------ Next
Next ==
    \/ \E r \in ReceiverIds : RegisterReceiver(r)
    \/ Supervisor
    \/ \E t \in Tasks : Listen(t)
    \/ ConnectionLost
    \/ \E t \in Tasks : StreamCancelled(t)

Spec == Init /\ [][Next]_vars

\* The Go scheduler runs every runnable goroutine, and receivers return from
\* OnReceive; the broker is under no obligation.
FairSpec ==
    /\ Spec
    /\ WF_vars(Supervisor)
    /\ \A t \in Tasks : WF_vars(Listen(t))

TypeOK ==
    /\ receivers \in Seq(ReceiverIds) /\ Len(receivers) <= MaxReceivers
    /\ wg \in Int
    /\ supPc \in {"new", "dial", "channel", "qos", "add", "go", "wait",
                  "closeChannel", "closeConn", "sleep"}
    /\ \A t \in Tasks : pc[t] \in {"none", "exchange", "queue", "qbind",
                                   "consume", "range", "onreceive", "ack", "done"}

\* ===================================================================
\* Properties
\* ===================================================================
ConnLost == conn # NoHandle /\ connState[conn] = "lost"
Started == supPc # "new"
Deliveries == DOMAIN deliv

\* C1: once the transport connection is lost, every consumption task of
\* the epoch terminates and run returns (the Supervisor reaches the delay of
\* Start), and after the delay Start dials again.
C1_LostThenNewEpoch ==
    /\ [](ConnLost => <>(supPc = "sleep"))
    /\ [](supPc = "sleep" => <>(supPc = "dial"))

\* C2: join barrier. While a consumption task of the epoch is running, run
\* is in its spawn loop or at wg.Wait(): it has not returned, the session is
\* not closed by the program and Start is not dialling.
C2_JoinBarrier ==
    Running # {} =>
        /\ supPc \in {"add", "go", "wait"}
        /\ chanState[channel] # "closed"
        /\ connState[conn] # "closed"

\* One task has exited alone, its sibling still consumes an open stream, and
\* the Supervisor is held at the barrier.
C2_Witness ==
    /\ supPc = "wait"
    /\ \E a, b \in Tasks : pc[a] = "done" /\ pc[b] = "range" /\ messages[b] = "open"

\* C3: an epoch whose connection and channel were established spawns exactly
\* one task per registry entry, in registry order, and each task reads the
\* binding of its own receiver only.
C3_OneTaskPerReceiver ==
    /\ Spawned = 1..Cardinality(Spawned)
    /\ Cardinality(Spawned) <= Len(receivers)
    /\ supPc \in {"wait", "closeChannel"} => Cardinality(Spawned) = Len(receivers)
    /\ \A t \in Spawned :
          /\ arg[t] = receivers[t]
          /\ bind[t] \in {NoBind, GetBindInfo(receivers[t])}
          /\ pc[t] # "exchange" => bind[t] = GetBindInfo(receivers[t])

\* Two different receivers are registered, both tasks are spawned and have
\* read their bindings.
C3_Witness ==
    /\ supPc = "wait"
    /\ Len(receivers) = 2
    /\ receivers[1] # receivers[2]
    /\ \A t \in 1..2 : pc[t] \notin {"none", "exchange"}

\* C4: a delivery is acknowledged at most once, and the broker settles a
\* delivery only through the Ack issued for that very delivery: no Ack
\* settles another outstanding delivery.
C4_AckOnceNonCumulative ==
    \A d \in Deliveries :
        /\ deliv[d].ackCalls <= 1
        /\ deliv[d].state = "acked" => deliv[d].ackCalls = 1

\* A later delivery was acknowledged while an earlier one of the channel,
\* whose verdict was false, stays unacknowledged.
C4_Witness ==
    \E d, e \in Deliveries :
        /\ d < e
        /\ deliv[d].verdict = "false" /\ deliv[d].state = "unacked"
        /\ deliv[e].verdict = "true" /\ deliv[e].state = "acked"

\* C5: a delivery whose verdict was false is never acknowledged in its
\* epoch: no Ack is issued for it and the broker never settles it.
C5_FalseNeverAcked ==
    \A d \in Deliveries :
        deliv[d].verdict = "false" =>
            deliv[d].ackCalls = 0 /\ deliv[d].state # "acked"

\* The same task got verdict false for one delivery and then acknowledged a
\* later one.
C5_Witness ==
    \E d, e \in Deliveries :
        /\ d < e
        /\ deliv[d].task = deliv[e].task
        /\ deliv[d].verdict = "false"
        /\ deliv[e].ackCalls = 1

\* C6: at most one connection and one channel are live at any time, a live
\* channel belongs to the live connection, and none is live once run has
\* returned (during the delay and at the next dial).
C6_OneSession ==
    /\ Cardinality(Live(connState)) <= 1
    /\ Cardinality(Live(chanState)) <= 1
    /\ Live(chanState) \subseteq Live(connState)
    /\ supPc \in {"new", "dial", "sleep"} =>
          Live(connState) = {} /\ Live(chanState) = {}

\* run has returned from an epoch whose connection and channel were opened.
C6_Witness ==
    /\ supPc = "sleep"
    /\ ~dialErr
    /\ channel # NoHandle /\ channel = conn

NoReceivers == Started /\ Len(receivers) = 0

\* C7: with an empty registry no task is ever spawned and the wait group
\* stays zero; the Supervisor reaches the delay again and again and dials
\* again and again.
C7_ZeroReceivers ==
    /\ [](NoReceivers => Spawned = {} /\ wg = 0)
    /\ [](NoReceivers => <>(supPc = "sleep"))
    /\ [](NoReceivers => <>(supPc = "dial"))

\* An epoch with an empty registry has passed the barrier.
C7_Witness == NoReceivers /\ supPc = "closeChannel"

\* The order in which listen issues its broker operations.
SetupOrder == <<"ExchangeDeclare", "QueueDeclare", "QueueBind", "Consume">>

\* C8: every task issues exchange declare, queue declare, queue bind and
\* Consume (manual ack) in that order, on its own binding, and holds no
\* delivery before all four were issued.
C8_SetupOrder ==
    \A t \in Tasks :
        /\ Len(ops[t]) <= 4
        /\ \A k \in 1..Len(ops[t]) : ops[t][k].op = SetupOrder[k]
        /\ Len(ops[t]) >= 1 =>
              ops[t][1] = [op |-> "ExchangeDeclare", name |-> bind[t].Exchange,
                           kind |-> "topic", durable |-> TRUE, autoDelete |-> FALSE]
        /\ Len(ops[t]) >= 2 =>
              ops[t][2].name = bind[t].QueueName /\ ops[t][2].durable
        /\ Len(ops[t]) >= 3 =>
              /\ ops[t][3].name = bind[t].QueueName
              /\ ops[t][3].key = bind[t].RouterKey
              /\ ops[t][3].exchange = bind[t].Exchange
        /\ Len(ops[t]) >= 4 =>
              ops[t][4].queue = bind[t].QueueName /\ ~ops[t][4].autoAck
        /\ (pc[t] \in {"onreceive", "ack"} \/ \E d \in Deliveries : deliv[d].task = t)
              => Len(ops[t]) = 4

\* A task holds a delivery for OnReceive.
C8_Witness == \E t \in Tasks : pc[t] = "onreceive" /\ Len(ops[t]) = 4

\* Task a takes a step in which a topology declaration fails.
TopologyFailure(a) ==
    /\ pc[a] \in {"exchange", "queue", "qbind"}
    /\ failed'[a] = failed[a] + 1

C10_DialFailureRetries ==
    /\ [](supPc = "sleep" /\ dialErr =>
             Live(connState) = {} /\ Live(chanState) = {} /\ Spawned = {} /\ wg = 0)
    /\ [](supPc = "sleep" => <>(supPc = "dial"))
    /\ ([](conn = NoHandle) => [](Started => <>(supPc = "sleep" /\ dialErr)))

\* A dial attempt that follows a failed dial, no connection ever made.
C10_Witness == supPc = "dial" /\ dialErr /\ conn = NoHandle

\* C11: the registry changes only by RegisterReceiver appending one receiver
\* at the end (a receiver already registered included), before Start; Start,
\* run and listen never change it, and at the barrier of every epoch the
\* tasks hold the whole registry, in order.
C11_RegistryAppendOnly ==
    /\ [][receivers' # receivers =>
             /\ supPc = "new"
             /\ \E r \in ReceiverIds : receivers' = Append(receivers, r)
             /\ UNCHANGED <<qos, supVars, sessVars, taskVars, onError, brokerVars>>]_vars
    /\ [](supPc = "new" /\ Len(receivers) < MaxReceivers =>
             \A r \in ReceiverIds : ENABLED RegisterReceiver(r))
    /\ [](supPc \in {"wait", "closeChannel"} =>
             [t \in 1..Len(receivers) |-> arg[t]] = receivers)

\* An epoch after a reconnect (a message was consumed in an earlier epoch,
\* no delivery yet on this channel) in which both tasks of a registry that
\* holds the same receiver twice are spawned again.
C11_Witness ==
    /\ supPc = "wait"
    /\ receivers = <<"r1", "r1">>
    /\ deliv = <<>>
    /\ ready["q1"] # InitialMsgs("q1")
    /\ Spawned = {1, 2}

\* The step in which conn.Channel() fails.
ChannelFailure == supPc = "channel" /\ supPc' # "channel" /\ channel' = NoHandle

\* C12 as stated: whatever the outcome of conn.Channel(), run goes on to
\* Qos and the spawn loop.
C12_ChannelFailureGoesOn ==
    [][supPc = "channel" /\ supPc' # "channel" => supPc' = "qos"]_vars

\* C12 amended: a failure of conn.Channel() aborts the attempt: run returns
\* through the deferred conn.Close() without spawning any task and without
\* touching the wait group.
C12_ChannelFailureAborts ==
    /\ [][ChannelFailure => supPc' = "closeConn" /\ pc' = pc /\ wg' = wg]_vars
    /\ [](supPc = "closeConn" /\ channel = NoHandle => Spawned = {} /\ wg = 0)

\* run is returning after a channel failure with two receivers registered.
C12_Witness ==
    /\ supPc = "closeConn"
    /\ channel = NoHandle
    /\ Len(receivers) = 2

\* C13: a failed Qos does not abort the attempt: run enters the spawn loop,
\* and under fair scheduling reaches the barrier with one task spawned per
\* registered receiver.
C13_QosFailureGoesOn ==
    /\ [][supPc = "qos" /\ supPc' # "qos" => supPc' = LoopNext(0)]_vars
    /\ [](supPc \in {"add", "go"} /\ ~qosApplied =>
             <>(supPc = "wait" /\ ~qosApplied /\ Cardinality(Spawned) = Len(receivers)))

\* The barrier of an epoch whose Qos failed, both tasks spawned.
C13_Witness ==
    /\ supPc = "wait"
    /\ ~qosApplied
    /\ Cardinality(Spawned) = 2

SetupSteps == {"exchange", "queue", "qbind", "consume"}

RECURSIVE Sum(_, _)
Sum(f, S) == IF S = {} THEN 0
             ELSE LET x == CHOOSE y \in S : TRUE IN f[x] + Sum(f, S \ {x})

\* C14: a setup step of a task that fails makes exactly one OnError call, on
\* the task's own receiver, and one that succeeds makes none; either way the
\* task goes on to the next setup step or to the forwarding loop, so a task
\* in the forwarding loop has issued all four operations.
C14_ErrorReportedNoAbort ==
    /\ [][\A t \in Tasks :
             pc[t] \in SetupSteps /\ pc'[t] # pc[t] =>
                 /\ pc'[t] \in SetupSteps \cup {"range"}
                 /\ Len(ops'[t]) = Len(ops[t]) + 1
                 /\ \/ /\ failed'[t] = failed[t] + 1
                       /\ onError' = [onError EXCEPT ![arg[t]] = @ + 1]
                    \/ /\ failed'[t] = failed[t]
                       /\ onError' = onError]_vars
    /\ [](\A r \in ReceiverIds :
             onError[r] = Sum(failed, {t \in Tasks : arg[t] = r}))
    /\ [](\A t \in Tasks :
             pc[t] \in {"range", "onreceive", "ack", "done"} => Len(ops[t]) = 4)

\* All four setup steps of a task failed and the task is in the forwarding
\* loop.
C14_Witness ==
    \E t \in Tasks : pc[t] = "range" /\ failed[t] = 4 /\ onError[arg[t]] >= 4

\* C15: a task ends only from the range loop on a closed stream: a task
\* that has ended has a closed stream, and OnReceive returning (whatever the
\* verdict) leads to the Ack or back to the loop.
C15_ExitOnlyOnClosedStream ==
    /\ [][\A t \in Tasks :
             /\ pc[t] # "done" /\ pc'[t] = "done" =>
                   pc[t] = "range" /\ messages[t] = "closed"
             /\ pc[t] = "onreceive" /\ pc'[t] # "onreceive" =>
                   pc'[t] \in {"ack", "range"}]_vars
    /\ [](\A t \in Tasks : pc[t] = "done" => messages[t] = "closed")

\* A task has ended that had a failed declaration and a false verdict.
C15_Witness ==
    \E t \in Tasks :
        /\ pc[t] = "done"
        /\ failed[t] >= 1
        /\ \E d \in Deliveries : deliv[d].task = t /\ deliv[d].verdict = "false"

DeliveriesOf(dl, t) == {d \in DOMAIN dl : dl[d].task = t}

PresentIn(rd, dl, q) ==
    rd[q] \cup {dl[d].m : d \in {e \in DOMAIN dl : dl[e].queue = q /\ dl[e].state = "unacked"}}

\* A delivery of message m of queue q got verdict false and the broker has
\* put the message back in the queue.
FalseRequeued(q, m) ==
    \E d \in Deliveries :
        /\ deliv[d].queue = q /\ deliv[d].m = m
        /\ deliv[d].verdict = "false" /\ deliv[d].state = "requeued"

\* C17: once the connection of its epoch is gone, a message whose verdict
\* was false is delivered again in a later epoch: run returns and Start
\* dials again, which any later delivery by this program needs.
C17_RequeuedThenLaterEpoch ==
    \A q \in QueueNames : \A m \in 1..MsgsPerQueue :
        [](FalseRequeued(q, m) => <>(supPc = "dial"))

\* The part of C17 that is about one epoch: a delivery whose verdict was
\* false gets no Ack and stays unacknowledged until the channel goes away,
\* when its message is back in the queue; no message is delivered twice on
\* one channel; and a message leaves its queue only by the Ack of a
\* delivery of it whose verdict was true.
C17_FalseVerdictKept ==
    /\ [][\A q \in QueueNames : \A m \in PresentIn(ready, deliv, q) :
             m \notin PresentIn(ready', deliv', q) =>
                 \E t \in Tasks :
                     /\ pc[t] = "ack" /\ pc'[t] = "range"
                     /\ deliv[msg[t]].m = m /\ deliv[msg[t]].queue = q
                     /\ deliv[msg[t]].verdict = "true"]_vars
    /\ [](\A d \in Deliveries :
             deliv[d].verdict = "false" =>
                 /\ deliv[d].ackCalls = 0
                 /\ \/ deliv[d].state = "unacked" /\ ChannelOpen
                    \/ /\ deliv[d].state = "requeued" /\ ~ChannelOpen
                       /\ deliv[d].m \in ready[deliv[d].queue])
    /\ [](\A d, e \in Deliveries :
             d # e => <<deliv[d].queue, deliv[d].m>> # <<deliv[e].queue, deliv[e].m>>)
    /\ [](supPc \in {"sleep", "dial"} =>
             \A q \in QueueNames : PresentIn(ready, deliv, q) = ready[q])

\* The Supervisor is closing the session of an epoch in which a message got
\* verdict false: the message is back in its queue.
C17_Witness ==
    /\ supPc = "closeConn"
    /\ \E d \in Deliveries :
          /\ deliv[d].verdict = "false"
          /\ deliv[d].state = "requeued"
          /\ deliv[d].m \in ready[deliv[d].queue]

\* Task t is in the range loop over a nil stream.
Stuck(t) == pc[t] = "range" /\ messages[t] = "nil"

\* C18: a task whose Consume failed enters the range loop with a nil stream;
\* from then on it stays there, it receives nothing, the wait group stays
\* positive and run stays in its loop or at wg.Wait(): it never returns,
\* whatever happens to the connection.
C18_NilStreamBlocksForever ==
    /\ [][\A t \in Tasks :
             /\ (pc[t] = "consume" /\ pc'[t] # "consume" /\ failed'[t] = failed[t] + 1)
                   => pc'[t] = "range" /\ messages'[t] = "nil"
             /\ Stuck(t) =>
                   /\ pc'[t] = "range" /\ messages'[t] = "nil"
                   /\ DeliveriesOf(deliv', t) = DeliveriesOf(deliv, t)]_vars
    /\ []((\E t \in Tasks : Stuck(t)) =>
             supPc \in {"add", "go", "wait"} /\ wg >= 1)

\* The connection is lost, one task has ended, the other is in the range
\* loop over a nil stream and the Supervisor is at the barrier.
C18_Witness ==
    /\ supPc = "wait"
    /\ ConnLost
    /\ \E a, b \in Tasks : Stuck(a) /\ pc[b] = "done"

\* Deliveries of task t that are inside OnReceive or waiting for their Ack.
InHand(t) ==
    {d \in DeliveriesOf(deliv, t) :
        \/ deliv[d].verdict = "pending"
        \/ deliv[d].verdict = "true" /\ deliv[d].ackCalls = 0}

\* C19: a task has at most one delivery in hand, the one held by its range
\* loop: every earlier delivery of the task has its verdict and, if the
\* verdict was true, its Ack.
C19_Sequential ==
    \A t \in Tasks :
        /\ InHand(t) \subseteq {msg[t]}
        /\ pc[t] \in {"onreceive", "ack"} <=> InHand(t) # {}
        /\ pc[t] = "onreceive" => deliv[msg[t]].verdict = "pending"
        /\ pc[t] = "ack" => deliv[msg[t]].verdict = "true"

\* A task is inside OnReceive for its second delivery, the first is settled.
C19_Witness ==
    \E t \in Tasks : \E d \in Deliveries :
        /\ pc[t] = "onreceive"
        /\ d < msg[t]
        /\ deliv[d].task = t
        /\ deliv[d].verdict # "pending"

\* C20: the wait group is never negative; it goes up by one only in run's
\* Add, before the go statement of that receiver, and down by one only when
\* a task ends; tasks are spawned in registry order; at wg.Wait() all tasks
\* are spawned and the counter is the number of tasks still running; it is
\* zero whenever run is not between its loop and the barrier.
C20_WaitGroup ==
    /\ [][/\ wg' > wg => wg' = wg + 1 /\ supPc = "add" /\ supPc' = "go" /\ pc' = pc
          /\ wg' < wg => /\ wg' = wg - 1
                         /\ \E t \in Tasks : pc[t] = "range" /\ pc'[t] = "done"
          /\ \A t \in Tasks : pc[t] = "range" /\ pc'[t] = "done" => wg' = wg - 1
          /\ \A t \in Tasks : pc[t] = "none" /\ pc'[t] # "none" =>
                 supPc = "go" /\ wg' = wg /\ t = idx + 1]_vars
    /\ [](/\ wg >= 0
          /\ wg = Cardinality(Running) + (IF supPc = "go" THEN 1 ELSE 0)
          /\ supPc \in {"add", "go", "wait"} =>
                /\ Spawned = 1..idx
                /\ \A t \in Spawned : arg[t] = receivers[t]
          /\ supPc = "wait" => idx = Len(receivers)
          /\ supPc \notin {"add", "go", "wait"} => wg = 0)

\* At the barrier with counter 1: one task has ended, one is inside
\* OnReceive.
C20_Witness ==
    /\ supPc = "wait"
    /\ wg = 1
    /\ \E a, b \in Tasks : pc[a] = "done" /\ pc[b] = "onreceive"

====
